---------------------------- MODULE Spec2Model ----------------------------
(***************************************************************************)
(* fluent-rest-tester: the dependency resolver (create_resource_from_def), *)
(* the cleanup orchestrator (delete_dependent_resources, cleanup_orphans)  *)
(* and the generated POST / DELETE steps of test_resource_defs, run by the *)
(* host test runner in definition order, against a remote REST service     *)
(* whose answers are chosen nondeterministically.                          *)
(*                                                                         *)
(* Strings are sequences of one-character strings, so that split('/') and  *)
(* indexOf are computed as the code computes them.                         *)
(***************************************************************************)
EXTENDS Integers, Sequences, FiniteSets, TLC

(***************************************************************************)
(* Bounds of the model                                                     *)
(***************************************************************************)
MaxFaults == 2      \* remote calls per run that do not answer with success
MaxDepth == 6       \* call-stack frames of one flow
MaxCalls == 2       \* calls of create_resource_from_def made by interleaved callers
MaxSync == 4        \* nested calls without an await between them that the call stack holds

(***************************************************************************)
(* JavaScript values                                                       *)
(***************************************************************************)
Null == 0           \* null / undefined definition reference
Undefined == 0      \* undefined id
NoResult == [nil |-> TRUE, statusCode |-> 0, resource |-> FALSE, id |-> Undefined, message |-> FALSE]
NoLast == [set |-> FALSE, id |-> Undefined, obj |-> NoResult]

parent_ref == <<"<", "p", "a", "r", "e", "n", "t", ">">>

Min(S) == CHOOSE x \in S : \A y \in S : x <= y

\* String.prototype.indexOf: first 0-based position of t in s, or -1
IndexOf(s, t) ==
    LET hits == {i \in 0..Len(s) : i + Len(t) <= Len(s) /\ SubSeq(s, i + 1, i + Len(t)) = t}
    IN IF hits = {} THEN -1 ELSE Min(hits)

\* String.prototype.split('/')
RECURSIVE Split(_)
Split(s) ==
    LET cut == {i \in 1..Len(s) : s[i] = "/"}
    IN IF cut = {} THEN <<s>>
       ELSE <<SubSeq(s, 1, Min(cut) - 1)>> \o Split(SubSeq(s, Min(cut) + 1, Len(s)))

\* pluralize.singular for regular plurals: a trailing "s" is dropped
singular(s) ==
    IF Len(s) > 1 /\ s[Len(s)] = "s" THEN SubSeq(s, 1, Len(s) - 1) ELSE s

(***************************************************************************)
(* Resource definitions, as create_resource_defs builds them from a        *)
(* configuration.  A definition is referred to by its index in the table   *)
(* of its configuration; parent = Null for a root.                         *)
(***************************************************************************)
field_def(n, f, dd) == [name |-> n, from |-> f, dont_delete |-> dd]
plain(n) == field_def(n, <<>>, FALSE)

resource_def(n, p, ch, fs, en, del) ==
    [name |-> n, parent |-> p, children |-> ch, fields |-> fs, enabled |-> en,
     verbs |-> [post |-> TRUE, delete |-> del]]

as == <<"a", "s">>
bs == <<"b", "s">>
cs == <<"c", "s">>
ds == <<"d", "s">>
gs == <<"g", "s">>
ps == <<"p", "s">>
qs == <<"q", "s">>
a_id == <<"a", "_", "i", "d">>
b_id == <<"b", "_", "i", "d">>
c_id == <<"c", "_", "i", "d">>
d_id == <<"d", "_", "i", "d">>
g_id == <<"g", "_", "i", "d">>
p_id == <<"p", "_", "i", "d">>
q_id == <<"q", "_", "i", "d">>
g_ref == <<"g", "_", "r", "e", "f">>
title == <<"t", "i", "t", "l", "e">>
ps_qs == ps \o <<"/">> \o qs
zs == <<"z", "s">>
abs == <<"a", "b", "s">>
zs_bs == zs \o <<"/">> \o bs
bs_zs == bs \o <<"/">> \o zs

\* as -> bs, both tested
ChainConfig ==
    [roots |-> <<1, 2>>,
     defs |-> << resource_def(as, Null, <<>>, <<plain(title), field_def(b_id, bs, FALSE)>>, TRUE, TRUE),
                 resource_def(bs, Null, <<>>, <<plain(title)>>, TRUE, TRUE) >>]

\* as -> bs -> ds, as -> cs -> ds; bs, cs and ds are fixtures only
DiamondConfig ==
    [roots |-> <<1, 2, 3, 4>>,
     defs |-> << resource_def(as, Null, <<>>, <<field_def(b_id, bs, FALSE), field_def(c_id, cs, FALSE)>>, TRUE, TRUE),
                 resource_def(bs, Null, <<>>, <<field_def(d_id, ds, FALSE)>>, FALSE, TRUE),
                 resource_def(cs, Null, <<>>, <<field_def(d_id, ds, FALSE)>>, FALSE, TRUE),
                 resource_def(ds, Null, <<>>, <<plain(title)>>, FALSE, TRUE) >>]

\* gs > {qs, ps > ds}; qs names its parent by path, ds its grandparent
NestedConfig ==
    [roots |-> <<1>>,
     defs |-> << resource_def(gs, Null, <<2, 3>>, <<plain(title)>>, TRUE, TRUE),
                 resource_def(qs, 1, <<>>, <<field_def(g_id, parent_ref, FALSE), field_def(g_ref, gs, FALSE)>>, TRUE, TRUE),
                 resource_def(ps, 1, <<4>>, <<field_def(g_id, parent_ref, FALSE)>>, TRUE, TRUE),
                 resource_def(ds, 3, <<>>, <<field_def(p_id, parent_ref, FALSE), field_def(g_ref, gs, FALSE)>>, TRUE, TRUE) >>]

\* as keeps its bs (dont_delete) and uses cs, cs does not keep its bs
KeepConfig ==
    [roots |-> <<1, 2, 3>>,
     defs |-> << resource_def(as, Null, <<>>, <<field_def(b_id, bs, TRUE), field_def(c_id, cs, FALSE)>>, TRUE, TRUE),
                 resource_def(cs, Null, <<>>, <<field_def(b_id, bs, FALSE)>>, TRUE, TRUE),
                 resource_def(bs, Null, <<>>, <<plain(title)>>, TRUE, TRUE) >>]

\* as -> ps/qs, a nested definition that links to its parent
PathConfig ==
    [roots |-> <<1, 2>>,
     defs |-> << resource_def(as, Null, <<>>, <<field_def(q_id, ps_qs, FALSE)>>, TRUE, TRUE),
                 resource_def(ps, Null, <<3>>, <<plain(title)>>, FALSE, TRUE),
                 resource_def(qs, 2, <<>>, <<field_def(p_id, parent_ref, FALSE)>>, TRUE, TRUE) >>]

\* as and ds keep the cs they use, cs uses bs, and bs is tested between them
SharedConfig ==
    [roots |-> <<1, 2, 3, 4>>,
     defs |-> << resource_def(as, Null, <<>>, <<field_def(b_id, bs, TRUE), field_def(c_id, cs, TRUE)>>, TRUE, TRUE),
                 resource_def(bs, Null, <<>>, <<plain(title)>>, TRUE, TRUE),
                 resource_def(ds, Null, <<>>, <<field_def(c_id, cs, TRUE)>>, TRUE, TRUE),
                 resource_def(cs, Null, <<>>, <<field_def(b_id, bs, FALSE)>>, FALSE, TRUE) >>]

\* as keeps the ps/qs it uses, and ps with its child qs is tested after as
KeepPathConfig ==
    [roots |-> <<1, 2>>,
     defs |-> << resource_def(as, Null, <<>>, <<field_def(q_id, ps_qs, TRUE)>>, TRUE, TRUE),
                 resource_def(ps, Null, <<3>>, <<plain(title)>>, TRUE, TRUE),
                 resource_def(qs, 2, <<>>, <<field_def(p_id, parent_ref, FALSE)>>, TRUE, TRUE) >>]

\* paths with a segment zs that names no definition: before bs, after bs, alone
TypoConfig ==
    [roots |-> <<1, 2, 3, 4>>,
     defs |-> << resource_def(as, Null, <<>>, <<field_def(b_id, zs_bs, FALSE)>>, TRUE, TRUE),
                 resource_def(cs, Null, <<>>, <<field_def(b_id, bs_zs, FALSE)>>, TRUE, TRUE),
                 resource_def(ds, Null, <<>>, <<field_def(b_id, zs, FALSE)>>, TRUE, TRUE),
                 resource_def(bs, Null, <<>>, <<plain(title)>>, FALSE, TRUE) >>]

\* abs > ds, and ds uses the root bs, whose name is part of the name abs
SubstringConfig ==
    [roots |-> <<1, 3>>,
     defs |-> << resource_def(abs, Null, <<2>>, <<plain(title)>>, TRUE, TRUE),
                 resource_def(ds, 1, <<>>, <<field_def(b_id, bs, FALSE)>>, TRUE, TRUE),
                 resource_def(bs, Null, <<>>, <<plain(title)>>, FALSE, TRUE) >>]

\* as -> bs -> as: each reaches the other as its first dependency
CycleConfig ==
    [roots |-> <<1, 2>>,
     defs |-> << resource_def(as, Null, <<>>, <<field_def(b_id, bs, FALSE)>>, TRUE, TRUE),
                 resource_def(bs, Null, <<>>, <<field_def(a_id, as, FALSE)>>, TRUE, TRUE) >>]

\* as -> bs -> as, and as resolves cs before it comes to bs
AwaitCycleConfig ==
    [roots |-> <<1, 2, 3>>,
     defs |-> << resource_def(as, Null, <<>>, <<field_def(c_id, cs, FALSE), field_def(b_id, bs, FALSE)>>, TRUE, TRUE),
                 resource_def(bs, Null, <<>>, <<field_def(a_id, as, FALSE)>>, TRUE, TRUE),
                 resource_def(cs, Null, <<>>, <<plain(title)>>, FALSE, TRUE) >>]

\* gs keeps its bs (dont_delete); its grandchild qs refers back to gs
GrandConfig ==
    [roots |-> <<1, 4>>,
     defs |-> << resource_def(gs, Null, <<2>>, <<field_def(b_id, bs, TRUE)>>, TRUE, TRUE),
                 resource_def(ps, 1, <<3>>, <<field_def(g_id, parent_ref, FALSE)>>, TRUE, TRUE),
                 resource_def(qs, 2, <<>>, <<field_def(p_id, parent_ref, FALSE), field_def(g_ref, gs, FALSE)>>, TRUE, TRUE),
                 resource_def(bs, Null, <<>>, <<plain(title)>>, FALSE, TRUE) >>]

Configs ==
    <<ChainConfig, DiamondConfig, NestedConfig, KeepConfig, PathConfig, SharedConfig,
      KeepPathConfig, TypoConfig, SubstringConfig, CycleConfig, AwaitCycleConfig,
      GrandConfig>>

all_defs(c) == Configs[c].roots
Def(c, d) == Configs[c].defs[d]
NumDefs(c) == Len(Configs[c].defs)

DefIds(c) == 1..NumDefs(c)
ConfigIds == 1..Len(Configs)

(***************************************************************************)
(* Pure functions of the tester                                            *)
(***************************************************************************)
\* the loop of find_resource_def: a segment without a match is passed over
RECURSIVE find_walk(_, _, _, _)
find_walk(c, segments, defs, current) ==
    IF segments = <<>> THEN current
    ELSE LET segment == Head(segments)
             m == {i \in 1..Len(defs) : Def(c, defs[i]).name = segment}
         IN IF m = {} THEN find_walk(c, Tail(segments), defs, current)
            ELSE find_walk(c, Tail(segments), Def(c, defs[Min(m)]).children, defs[Min(m)])

\* the walk stops after the first segment
find_resource_def_Mutant(c, name) == find_walk(c, <<Head(Split(name))>>, all_defs(c), Null)

find_resource_def(c, name) == find_walk(c, Split(name), all_defs(c), Null)

\* names from the root down to d
RECURSIVE chain_of(_, _)
chain_of(c, d) ==
    IF Def(c, d).parent = Null THEN <<Def(c, d).name>>
    ELSE Append(chain_of(c, Def(c, d).parent), Def(c, d).name)

RECURSIVE api_walk(_, _, _)
api_walk(resources, pid, api) ==
    IF resources = <<>> THEN api
    ELSE IF Len(resources) % 2 = 0
         THEN api_walk(Tail(resources), pid,
                       Append(api, [member |-> singular(Head(resources)), args |-> <<pid>>]))
         ELSE api_walk(Tail(resources), pid,
                       Append(api, [member |-> Head(resources), args |-> <<>>]))

\* ok = FALSE: def.parent.last is null where its id is read (TypeError)
get_api_for_def(c, d, lst) ==
    LET resources == chain_of(c, d) IN
    IF Len(resources) >= 2 /\ ~lst[Def(c, d).parent].set
    THEN [ok |-> FALSE, api |-> <<>>]
    ELSE [ok |-> TRUE,
          api |-> api_walk(resources,
                           IF Len(resources) >= 2 THEN lst[Def(c, d).parent].id ELSE Undefined,
                           <<>>)]

Put(o, k, v) == [x \in (DOMAIN o) \cup {k} |-> IF x = k THEN v ELSE o[x]]
EmptyObject == [x \in {} |-> Undefined]

\* def.parent.last is not looked at: the parent is always a dependency
from_parent_Mutant(c, p, f, lst, acc) ==
    [acc EXCEPT !.deps = Append(acc.deps, [field |-> f.name, from |-> Def(c, p).name])]

\* a field from '<parent>': the id of the parent's last instance if there is
\* one, a dependency on the parent's name if not
from_parent(c, p, f, lst, acc) ==
    IF lst[p].set
    THEN [acc EXCEPT !.instance = Put(acc.instance, f.name, lst[p].id)]
    ELSE [acc EXCEPT !.deps = Append(acc.deps, [field |-> f.name, from |-> Def(c, p).name])]

\* a referenced definition that has an instance is resolved on the spot
from_path_Mutant(c, f, lst, acc) ==
    LET B == find_resource_def(c, f.from)
    IN IF B # Null /\ lst[B].set
       THEN [acc EXCEPT !.instance = Put(acc.instance, f.name, lst[B].id)]
       ELSE [acc EXCEPT !.deps = Append(acc.deps, [field |-> f.name, from |-> f.from])]

\* deps.push({ field: f.name, from: f.from })
from_path(c, f, lst, acc) ==
    [acc EXCEPT !.deps = Append(acc.deps, [field |-> f.name, from |-> f.from])]

\* fields without from get generated values, which are not part of the model
RECURSIVE mto_walk(_, _, _, _, _)
mto_walk(c, d, lst, k, acc) ==
    IF k > Len(Def(c, d).fields) \/ ~acc.ok THEN acc
    ELSE LET f == Def(c, d).fields[k]
             p == Def(c, d).parent
         IN IF f.from = <<>> THEN mto_walk(c, d, lst, k + 1, acc)
            ELSE IF f.from = parent_ref
            THEN IF p = Null THEN [acc EXCEPT !.ok = FALSE]
                 ELSE mto_walk(c, d, lst, k + 1, from_parent(c, p, f, lst, acc))
            ELSE mto_walk(c, d, lst, k + 1, from_path(c, f, lst, acc))

\* the dependencies found are not handed to the caller
make_test_object_Mutant(c, d, lst) ==
    [mto_walk(c, d, lst, 1, [ok |-> TRUE, instance |-> EmptyObject, deps |-> <<>>])
        EXCEPT !.deps = <<>>]

\* ok = FALSE: a '<parent>' field on a definition without parent (TypeError)
make_test_object(c, d, lst) ==
    mto_walk(c, d, lst, 1, [ok |-> TRUE, instance |-> EmptyObject, deps |-> <<>>])

\* the steps test_resource_defs registers, in the order the runner runs them
RECURSIVE test_resource_defs(_, _)
test_resource_defs(c, defs) ==
    IF defs = <<>> THEN <<>>
    ELSE LET x == Head(defs)
             own == IF ~Def(c, x).enabled \/ ~Def(c, x).verbs.post THEN <<>>
                    ELSE <<[step |-> "POST", def |-> x]>>
                         \o test_resource_defs(c, Def(c, x).children)
                         \o (IF Def(c, x).verbs.delete
                             THEN <<[step |-> "DELETE", def |-> x]>> ELSE <<>>)
         IN own \o test_resource_defs(c, Tail(defs))

\* the after hook runs before the steps of the definitions
run_Mutant(c) == <<[step |-> "AFTER", def |-> Null]>> \o test_resource_defs(c, all_defs(c))

\* run: the steps of all definitions, then the after hook
run(c) == test_resource_defs(c, all_defs(c)) \o <<[step |-> "AFTER", def |-> Null]>>

(***************************************************************************)
(* State                                                                   *)
(***************************************************************************)
VARIABLES
    cfg,        \* the loaded configuration (this._all_defs)
    numbering,  \* how the remote numbers instances: per collection or globally
    last,       \* def.last of every definition
    cleanups,   \* this._cleanups, the orphan queue
    remote,     \* instances that exist on the remote: <<definition, id>>
    stack,      \* per flow, the frames of the asynchronous calls in progress
    ip,         \* the step of run(cfg) the runner is at
    id,         \* the variable id of each definition's describe block
    report,     \* result of every finished step
    faults,     \* remote calls that did not answer with success so far
    log         \* calls, answers, returns and slot updates in the order they happened

vars == <<cfg, numbering, last, cleanups, remote, stack, ip, id, report, faults, log>>

Flows == {1}
Runner == 1

Ev(e, d, i, r, a, o) == [ev |-> e, def |-> d, id |-> i, res |-> r, api |-> a, inst |-> o]
EvCall(d)              == Ev("call", d, Undefined, NoResult, <<>>, EmptyObject)
EvReturn(d, r)         == Ev("return", d, r.id, r, <<>>, EmptyObject)
EvCreate(d, a, o)      == Ev("create", d, Undefined, NoResult, a, o)
EvCreated(d, r)        == Ev("created", d, r.id, r, <<>>, EmptyObject)
EvDelete(by, d, i, a)  == Ev(by, d, i, NoResult, a, EmptyObject)
EvDeleted(d, i, sc)    == Ev("deleted", d, i, [NoResult EXCEPT !.nil = FALSE, !.statusCode = sc], <<>>, EmptyObject)
EvSet(d, i)            == Ev("set", d, i, NoResult, <<>>, EmptyObject)
EvClear(d, i)          == Ev("clear", d, i, NoResult, <<>>, EmptyObject)
EvPush(d, i)           == Ev("push", d, i, NoResult, <<>>, EmptyObject)
EvThrow(d)             == Ev("throw", d, Undefined, NoResult, <<>>, EmptyObject)
EvDrained              == Ev("drained", Null, Undefined, NoResult, <<>>, EmptyObject)
EvEnter(d)             == Ev("enter", d, Undefined, NoResult, <<>>, EmptyObject)
EvLeave(d)             == Ev("leave", d, Undefined, NoResult, <<>>, EmptyObject)
EvDrain                == Ev("drain", Null, Undefined, NoResult, <<>>, EmptyObject)
EvRejected(d)          == Ev("rejected", d, Undefined, NoResult, <<>>, EmptyObject)

DeleteCalls == {"delete_step", "delete_deps", "delete_drain"}

Top(t) == stack[t][Len(stack[t])]
Pop(s) == SubSeq(s, 1, Len(s) - 1)
SetTop(s, f) == [s EXCEPT ![Len(s)] = f]
Running(t, fn, pc) == stack[t] # <<>> /\ Top(t).fn = fn /\ Top(t).pc = pc

create_frame(d, obj) ==
    [fn |-> "create", def |-> d, deps |-> obj.deps, instance |-> obj.instance, i |-> 1,
     pc |-> "loop", api |-> <<>>]
delete_frame(d) ==
    [fn |-> "delete", def |-> d, x |-> 1, temp_def |-> Null, pc |-> "entry", api |-> <<>>]
drain_frame ==
    [fn |-> "drain", deleted |-> <<>>, current |-> [def |-> Null, id |-> Undefined], pc |-> "loop"]
step_frame(fn, d, pc, arg) ==
    [fn |-> fn, def |-> d, pc |-> pc, arg |-> arg]

(***************************************************************************)
(* The remote service                                                      *)
(***************************************************************************)
Created(lg, D) == Cardinality({k \in 1..Len(lg) : lg[k].ev = "created" /\ lg[k].res.statusCode = 201 /\ lg[k].def \in D})

NewId(d) == IF numbering = "collection" THEN Created(log, {d}) + 1
            ELSE Created(log, DefIds(cfg)) + 1

Success(n)  == [nil |-> FALSE, statusCode |-> 201, resource |-> TRUE, id |-> n, message |-> FALSE]
ErrorPayload == [nil |-> FALSE, statusCode |-> 400, resource |-> TRUE, id |-> Undefined, message |-> TRUE]

MayFail == faults < MaxFaults
Rejected == -1      \* the promise of the call is rejected

\* answers to create: a new instance, an error payload, no result, or a rejection
CreateAnswers == {"created"} \cup (IF MayFail THEN {"error", "nothing", "reject"} ELSE {})

\* answers to delete_by_id: status 204 removes the instance, 404 says there is
\* none, 500 leaves it in place; the call may also be rejected
DeleteAnswers(d, i) ==
    (IF <<d, i>> \in remote
     THEN {204} \cup (IF MayFail THEN {500} ELSE {})
     ELSE {404})
    \cup (IF MayFail THEN {Rejected} ELSE {})

\* the handle a describe block binds in its before hook
RECURSIVE scope_api(_, _, _)
scope_api(c, x, ids) ==
    (IF Def(c, x).parent = Null THEN <<>> ELSE scope_api(c, Def(c, x).parent, ids))
    \o <<[member |-> singular(Def(c, x).name), args |-> <<ids[x]>>]>>

resource_api(c, x, ids) ==
    (IF Def(c, x).parent = Null THEN <<>> ELSE scope_api(c, Def(c, x).parent, ids))
    \o <<[member |-> Def(c, x).name, args |-> <<>>]>>

(***************************************************************************)
(* Initial state: a configuration is loaded, nothing is created            *)
(***************************************************************************)
Init ==
    /\ cfg \in ConfigIds
    /\ numbering \in {"collection", "global"}
    /\ last = [d \in DefIds(cfg) |-> NoLast]
    /\ cleanups = <<>>
    /\ remote = {}
    /\ stack = [t \in Flows |-> <<>>]
    /\ ip = 1
    /\ id = [d \in DefIds(cfg) |-> Undefined]
    /\ report = <<>>
    /\ faults = 0
    /\ log = <<>>

(***************************************************************************)
(* Control transfers shared by the steps                                   *)
(***************************************************************************)
\* an exception unwinds every frame and reaches the step's catch(done)
Throw(t, lg, d) ==
    /\ stack' = [stack EXCEPT ![t] = <<>>]
    /\ ip' = ip + 1
    /\ report' = Append(report, "fail")
    /\ id' = id
    /\ log' = Append(lg, EvThrow(d))

\* the checks of the POST step on the result of create_resource_from_def
PostPasses(r) ==
    ~r.nil /\ r.resource /\ ~r.message /\ r.statusCode = 201 /\ r.id # Undefined

\* result.id read in place of result.resource.id
resolved_Mutant(c, r) == Put(c.instance, c.deps[c.i].field, Undefined)

\* obj.instance[x.field] = result.resource.id
resolved(c, r) == Put(c.instance, c.deps[c.i].field, r.id)

\* the result of a dependency is used whatever it is
dep_failed_Mutant(r) == FALSE

\* if (!result || !result.resource)
dep_failed(r) == r.nil \/ ~r.resource

\* create_resource_from_def(d) returns r to the frame below it
ReturnCreate(t, d, r, lg) ==
    LET stk == Pop(stack[t])
        c == stk[Len(stk)]
        lg2 == Append(lg, EvReturn(d, r))
    IN IF c.fn = "create"
       THEN IF dep_failed(r)
            THEN Throw(t, lg2, c.def)
            ELSE /\ stack' = [stack EXCEPT ![t] =
                       SetTop(stk, [c EXCEPT !.instance = resolved(c, r),
                                             !.i = c.i + 1, !.pc = "loop"])]
                 /\ log' = lg2
                 /\ UNCHANGED <<ip, report, id>>
       ELSE IF PostPasses(r)
            THEN /\ stack' = [stack EXCEPT ![t] = <<>>]
                 /\ id' = [id EXCEPT ![c.def] = r.id]
                 /\ report' = Append(report, "pass")
                 /\ ip' = ip + 1
                 /\ log' = lg2
            ELSE Throw(t, lg2, c.def)

\* delete_dependent_resources returns to the frame below it
ReturnDelete(t, lg) ==
    LET stk == Pop(stack[t])
        c == stk[Len(stk)]
        lg2 == Append(lg, EvLeave(Top(t).def))
    IN IF c.fn = "delete"
       THEN /\ stack' = [stack EXCEPT ![t] = SetTop(stk, [c EXCEPT !.pc = "issue"])]
            /\ log' = lg2
            /\ UNCHANGED <<ip, report, id, last>>
       ELSE /\ last' = [last EXCEPT ![c.def] = NoLast]
            /\ stack' = [stack EXCEPT ![t] = <<>>]
            /\ ip' = ip + 1
            /\ report' = Append(report, "pass")
            /\ id' = id
            /\ log' = Append(lg2, EvClear(c.def, last[c.def].id))

AtStep(s) == ip <= Len(run(cfg)) /\ stack[Runner] = <<>> /\ run(cfg)[ip].step = s

(***************************************************************************)
(* create_resource_from_def                                                *)
(***************************************************************************)
\* POST step: 'should create a new resource' calls create_resource_from_def(x)
StartPOST ==
    /\ AtStep("POST")
    /\ LET x == run(cfg)[ip].def
           obj == make_test_object(cfg, x, last)
           lg == Append(log, EvCall(x))
       IN IF obj.ok
          THEN /\ stack' = [stack EXCEPT ![Runner] =
                     <<step_frame("POST", x, "await", Undefined), create_frame(x, obj)>>]
               /\ log' = lg
               /\ UNCHANGED <<ip, report, id>>
          ELSE Throw(Runner, lg, x)
    /\ UNCHANGED <<cfg, numbering, last, cleanups, remote, faults>>

\* calls of create_resource_from_def on top of the stack that were entered
\* one from the other without an await in between
RECURSIVE SyncFrames(_)
SyncFrames(stk) ==
    IF stk = <<>> THEN 0
    ELSE IF stk[Len(stk)].fn = "create" /\ stk[Len(stk)].i = 1
         THEN 1 + SyncFrames(Pop(stk))
         ELSE 0

\* the call stack has no limit
overflow_Mutant(stk) == FALSE

\* one more nested call exceeds the call stack (RangeError)
overflow(stk) == SyncFrames(stk) >= MaxSync

\* one round of the loop over obj.deps, up to the recursive call
CreateDep(t) ==
    /\ Running(t, "create", "loop")
    /\ Top(t).i <= Len(Top(t).deps)
    /\ LET f == Top(t)
           x == f.deps[f.i]
           dep_def == find_resource_def(cfg, x.from)
       IN IF dep_def = Null
          THEN Throw(t, log, f.def)
          ELSE LET obj == make_test_object(cfg, dep_def, last)
                   lg == Append(log, EvCall(dep_def))
               IN IF ~obj.ok \/ overflow(stack[t])
                  THEN Throw(t, lg, dep_def)
                  ELSE /\ Len(stack[t]) < MaxDepth
                       /\ stack' = [stack EXCEPT ![t] =
                             Append(SetTop(stack[t], [f EXCEPT !.pc = "await_dep"]),
                                    create_frame(dep_def, obj))]
                       /\ log' = lg
                       /\ UNCHANGED <<ip, report, id>>
    /\ UNCHANGED <<cfg, numbering, last, cleanups, remote, faults>>

\* the check of def.last left out: every call creates
Cached_Mutant(lst, d) == FALSE

\* if (!def.last)
Cached(lst, d) == lst[d].set

\* after the loop: issue the create call, or return the cached result
CreateIssue(t) ==
    /\ Running(t, "create", "loop")
    /\ Top(t).i > Len(Top(t).deps)
    /\ LET f == Top(t)
           d == f.def
           a == get_api_for_def(cfg, d, last)
       IN IF ~Cached(last, d)
          THEN IF ~a.ok
               THEN Throw(t, log, d)
               ELSE /\ stack' = [stack EXCEPT ![t] =
                          SetTop(stack[t], [f EXCEPT !.pc = "await_create", !.api = a.api])]
                    /\ log' = Append(log, EvCreate(d, a.api, f.instance))
                    /\ UNCHANGED <<ip, report, id>>
          ELSE ReturnCreate(t, d, last[d].obj, log)
    /\ UNCHANGED <<cfg, numbering, last, cleanups, remote, faults>>

\* the result is returned without being kept in def.last
Remember_Mutant(lst, d, r) == lst

\* def.last = { id: result.resource.id, obj: result } when there is a result
Remember(lst, d, r) == [lst EXCEPT ![d] = [set |-> TRUE, id |-> r.id, obj |-> r]]

\* the create call is answered
CreateAnswer(t) ==
    /\ Running(t, "create", "await_create")
    /\ \E ans \in CreateAnswers :
         LET d == Top(t).def
             r == CASE ans = "created" -> Success(NewId(d))
                    [] ans = "error" -> ErrorPayload
                    [] OTHER -> NoResult
             lg == Append(log, EvCreated(d, r))
         IN /\ faults' = IF ans = "created" THEN faults ELSE faults + 1
            /\ remote' = IF ans = "created" THEN remote \cup {<<d, r.id>>} ELSE remote
            /\ IF ans = "reject"
               THEN /\ Throw(t, Append(log, EvRejected(d)), d)
                    /\ last' = last
               ELSE /\ last' = IF r.nil THEN last ELSE Remember(last, d, r)
                    /\ ReturnCreate(t, d, r, IF r.nil THEN lg ELSE Append(lg, EvSet(d, r.id)))
    /\ UNCHANGED <<cfg, numbering, cleanups>>

(***************************************************************************)
(* The DELETE step and delete_dependent_resources                          *)
(***************************************************************************)
\* DELETE step: 'should delete newly created resource' calls delete_by_id(id)
StartDELETE ==
    /\ AtStep("DELETE")
    /\ LET x == run(cfg)[ip].def
       IN /\ stack' = [stack EXCEPT ![Runner] = <<step_frame("DELETE", x, "await_primary", id[x])>>]
          /\ log' = Append(log, EvDelete("delete_step", x, id[x], resource_api(cfg, x, id)))
    /\ UNCHANGED <<cfg, numbering, last, cleanups, remote, ip, id, report, faults>>

\* last is kept after the delete
Forget_Mutant(lst, d) == lst

\* temp_def.last = null
Forget(lst, d) == [lst EXCEPT ![d] = NoLast]

\* the status of the primary delete is not checked
step_passes_Mutant(sc) == TRUE

\* result.response.statusCode.should.be.exactly(204)
step_passes(sc) == sc = 204

\* the primary delete is answered; status 204 passes the checks of the step
DeleteStepAnswer ==
    /\ Running(Runner, "DELETE", "await_primary")
    /\ LET f == Top(Runner)
           x == f.def
       IN \E sc \in DeleteAnswers(x, f.arg) :
            LET lg == Append(log, EvDeleted(x, f.arg, sc))
            IN /\ faults' = IF sc \in {204, 404} THEN faults ELSE faults + 1
               /\ remote' = IF sc = 204 THEN remote \ {<<x, f.arg>>} ELSE remote
               /\ IF step_passes(sc)
                  THEN /\ stack' = [stack EXCEPT ![Runner] =
                             <<[f EXCEPT !.pc = "await_cleanup"], delete_frame(x)>>]
                       /\ log' = Append(lg, EvEnter(x))
                       /\ UNCHANGED <<ip, report, id>>
                  ELSE Throw(Runner, lg, x)
    /\ UNCHANGED <<cfg, numbering, last, cleanups>>

\* the fields are walked whether or not def has a last
no_instance_Mutant(lst, def) == FALSE

\* !def || !def.last
no_instance(lst, def) == ~lst[def].set

\* if (!def || !def.last) return
DeleteEntry(t) ==
    /\ Running(t, "delete", "entry")
    /\ IF no_instance(last, Top(t).def)
       THEN ReturnDelete(t, log)
       ELSE /\ stack' = [stack EXCEPT ![t] = SetTop(stack[t], [Top(t) EXCEPT !.pc = "loop"])]
            /\ UNCHANGED <<ip, report, id, last, log>>
    /\ UNCHANGED <<cfg, numbering, cleanups, remote, faults>>

\* the field's dont_delete is not looked at
delete_now_Mutant(c, def, current_field) ==
    \/ Def(c, def).parent = Null
    \/ IndexOf(Def(c, Def(c, def).parent).name, current_field.from) < 0

\* the dependency is deleted now rather than left to the orphan queue
delete_now(c, def, current_field) ==
    /\ ~current_field.dont_delete
    /\ \/ Def(c, def).parent = Null
       \/ IndexOf(Def(c, Def(c, def).parent).name, current_field.from) < 0

orphan(temp_def, lst) == [def |-> temp_def, id |-> lst[temp_def].id]

\* the dependencies of the dependency are left alone
dependents_first_Mutant(temp_def) ==
    [delete_frame(temp_def) EXCEPT !.x = Len(Def(cfg, temp_def).fields) + 1, !.pc = "loop"]

\* await this.delete_dependent_resources(temp_def), ahead of its own delete
dependents_first(temp_def) == delete_frame(temp_def)

\* the status of the delete is not looked at
not_deleted_Mutant(sc) == FALSE

\* result.response.statusCode !== 204
not_deleted(sc) == sc # 204

\* one round of the loop over the fields, up to the recursive call
DeleteField(t) ==
    /\ Running(t, "delete", "loop")
    /\ LET f == Top(t)
           keys == Def(cfg, f.def).fields
           next == [stack EXCEPT ![t] = SetTop(stack[t], [f EXCEPT !.x = f.x + 1])]
       IN IF f.x > Len(keys)
          THEN ReturnDelete(t, log) /\ cleanups' = cleanups
          ELSE LET current_field == keys[f.x]
                   temp_def == find_resource_def(cfg, current_field.from)
               IN IF current_field.from = <<>> \/ current_field.from = parent_ref
                  THEN stack' = next /\ UNCHANGED <<ip, report, id, last, log, cleanups>>
                  ELSE IF temp_def = Null
                  THEN Throw(t, log, f.def) /\ UNCHANGED <<last, cleanups>>
                  ELSE IF ~last[temp_def].set
                  THEN stack' = next /\ UNCHANGED <<ip, report, id, last, log, cleanups>>
                  ELSE IF delete_now(cfg, f.def, current_field)
                  THEN /\ Len(stack[t]) < MaxDepth
                       /\ stack' = [stack EXCEPT ![t] =
                             Append(SetTop(stack[t], [f EXCEPT !.pc = "await_rec", !.temp_def = temp_def]),
                                    dependents_first(temp_def))]
                       /\ log' = Append(log, EvEnter(temp_def))
                       /\ UNCHANGED <<ip, report, id, last, cleanups>>
                  ELSE /\ cleanups' = Append(cleanups, orphan(temp_def, last))
                       /\ stack' = next
                       /\ log' = Append(log, EvPush(temp_def, last[temp_def].id))
                       /\ UNCHANGED <<ip, report, id, last>>
    /\ UNCHANGED <<cfg, numbering, remote, faults>>

\* after the recursive call: bind the client and call delete_by_id
DeleteIssue(t) ==
    /\ Running(t, "delete", "issue")
    /\ LET f == Top(t)
           temp_def == f.temp_def
           a == get_api_for_def(cfg, temp_def, last)
       IN IF ~a.ok \/ ~last[temp_def].set
          THEN Throw(t, log, temp_def)
          ELSE /\ stack' = [stack EXCEPT ![t] =
                     SetTop(stack[t], [f EXCEPT !.pc = "await_delete", !.api = a.api])]
               /\ log' = Append(log, EvDelete("delete_deps", temp_def, last[temp_def].id, a.api))
               /\ UNCHANGED <<ip, report, id>>
    /\ UNCHANGED <<cfg, numbering, last, cleanups, remote, faults>>

\* the delete of a dependency is answered
DeleteAnswer(t) ==
    /\ Running(t, "delete", "await_delete")
    /\ LET f == Top(t)
           temp_def == f.temp_def
           i == last[temp_def].id
       IN \E sc \in DeleteAnswers(temp_def, i) :
            LET lg == Append(log, EvDeleted(temp_def, i, sc))
            IN /\ faults' = IF sc \in {204, 404} THEN faults ELSE faults + 1
               /\ remote' = IF sc = 204 THEN remote \ {<<temp_def, i>>} ELSE remote
               /\ IF sc = Rejected
                  THEN Throw(t, lg, temp_def) /\ UNCHANGED <<last, cleanups>>
                  ELSE /\ cleanups' = IF not_deleted(sc) THEN Append(cleanups, orphan(temp_def, last))
                                      ELSE cleanups
                       /\ last' = Forget(last, temp_def)
                       /\ stack' = [stack EXCEPT ![t] =
                             SetTop(stack[t], [f EXCEPT !.x = f.x + 1, !.pc = "loop"])]
                       /\ log' = (IF not_deleted(sc) THEN Append(lg, EvPush(temp_def, i)) ELSE lg)
                                 \o <<EvClear(temp_def, i)>>
                       /\ UNCHANGED <<ip, report, id>>
    /\ UNCHANGED <<cfg, numbering>>

(***************************************************************************)
(* cleanup_orphans, run by the after hook                                  *)
(***************************************************************************)
StartAFTER ==
    /\ AtStep("AFTER")
    /\ stack' = [stack EXCEPT ![Runner] = <<step_frame("AFTER", Null, "await", Undefined), drain_frame>>]
    /\ log' = Append(log, EvDrain)
    /\ UNCHANGED <<cfg, numbering, last, cleanups, remote, ip, id, report, faults>>

\* no entry is taken for deleted already
seen_Mutant(deleted, current) == FALSE

\* deleted.indexOf(current.id) > -1
seen(deleted, current) == \E k \in 1..Len(deleted) : deleted[k] = current.id

\* one round of the while loop, up to the delete call
DrainNext(t) ==
    /\ Running(t, "drain", "loop")
    /\ LET f == Top(t)
       IN IF cleanups = <<>>
          THEN /\ stack' = [stack EXCEPT ![t] = <<>>]
               /\ ip' = ip + 1
               /\ report' = Append(report, "pass")
               /\ log' = Append(log, EvDrained)
               /\ UNCHANGED <<cleanups, id>>
          ELSE LET current == Head(cleanups)
                   a == get_api_for_def(cfg, current.def, last)
               IN /\ cleanups' = Tail(cleanups)
                  /\ IF seen(f.deleted, current)
                     THEN UNCHANGED <<stack, ip, report, id, log>>
                     ELSE IF ~a.ok
                     THEN Throw(t, log, current.def)
                     ELSE /\ stack' = [stack EXCEPT ![t] =
                                SetTop(stack[t], [f EXCEPT !.pc = "await_delete", !.current = current])]
                          /\ log' = Append(log, EvDelete("delete_drain", current.def, current.id, a.api))
                          /\ UNCHANGED <<ip, report, id>>
    /\ UNCHANGED <<cfg, numbering, last, remote, faults>>

\* the drain clears the last of the definition it has deleted an instance of
drained_last_Mutant(lst, current) == Forget(lst, current.def)

\* deleted.push(current.id): no last is assigned
drained_last(lst, current) == lst

\* the delete of an orphan is answered; its status is not looked at
DrainAnswer(t) ==
    /\ Running(t, "drain", "await_delete")
    /\ LET f == Top(t)
           current == f.current
       IN \E sc \in DeleteAnswers(current.def, current.id) :
            LET lg == Append(log, EvDeleted(current.def, current.id, sc))
            IN /\ faults' = IF sc \in {204, 404} THEN faults ELSE faults + 1
               /\ remote' = IF sc = 204 THEN remote \ {<<current.def, current.id>>} ELSE remote
               /\ IF sc = Rejected
                  THEN Throw(t, lg, current.def) /\ last' = last
                  ELSE /\ stack' = [stack EXCEPT ![t] =
                             SetTop(stack[t], [f EXCEPT !.deleted = Append(f.deleted, current.id),
                                                        !.pc = "loop"])]
                       /\ last' = drained_last(last, current)
                       /\ log' = lg
                       /\ UNCHANGED <<ip, report, id>>
    /\ UNCHANGED <<cfg, numbering, cleanups>>

(***************************************************************************)
(* The run                                                                 *)
(***************************************************************************)
Next ==
    \/ StartPOST
    \/ StartDELETE
    \/ DeleteStepAnswer
    \/ StartAFTER
    \/ \E t \in Flows : CreateDep(t)
    \/ \E t \in Flows : CreateIssue(t)
    \/ \E t \in Flows : CreateAnswer(t)
    \/ \E t \in Flows : DeleteEntry(t)
    \/ \E t \in Flows : DeleteField(t)
    \/ \E t \in Flows : DeleteIssue(t)
    \/ \E t \in Flows : DeleteAnswer(t)
    \/ \E t \in Flows : DrainNext(t)
    \/ \E t \in Flows : DrainAnswer(t)

Spec == Init /\ [][Next]_vars

\* every remote call is answered and every continuation is run
FairSpec == Spec /\ WF_vars(Next)

Finished == ip > Len(run(cfg))

(***************************************************************************)
(* Interleaved callers: create_resource_from_def is called for any         *)
(* definition by callers that do not wait for one another.  A flow runs    *)
(* without interruption from the call up to its first await; the flows     *)
(* interleave at the awaits.                                               *)
(***************************************************************************)
ParFlows == {1, 2}

\* the interleaved callers work on the chain as -> bs
ParConfigIds == {c \in ConfigIds : Configs[c] = ChainConfig}

ParInit ==
    /\ cfg \in ParConfigIds
    /\ numbering \in {"collection", "global"}
    /\ last = [d \in DefIds(cfg) |-> NoLast]
    /\ cleanups = <<>>
    /\ remote = {}
    /\ stack = [t \in ParFlows |-> <<>>]
    /\ ip = 1
    /\ id = [d \in DefIds(cfg) |-> Undefined]
    /\ report = <<>>
    /\ faults = 0
    /\ log = <<>>

\* flow u has entered create_resource_from_def and not reached an await yet
InSync(u) ==
    /\ stack[u] # <<>>
    /\ Top(u).fn = "create" /\ Top(u).pc = "loop" /\ Top(u).i = 1

\* flow t may run: no other flow is between two awaits
Turn(t) == \A u \in ParFlows \ {t} : ~InSync(u)

\* calls started so far
Started == (ip - 1) + Cardinality({u \in ParFlows : stack[u] # <<>>})

\* a caller calls create_resource_from_def(x) and checks the result as the
\* POST step does
ParStart(t) ==
    /\ stack[t] = <<>>
    /\ Started < MaxCalls
    /\ \E x \in DefIds(cfg) :
         LET obj == make_test_object(cfg, x, last)
             lg == Append(log, EvCall(x))
         IN IF obj.ok
            THEN /\ stack' = [stack EXCEPT ![t] =
                       <<step_frame("POST", x, "await", Undefined), create_frame(x, obj)>>]
                 /\ log' = lg
                 /\ UNCHANGED <<ip, report, id>>
            ELSE Throw(t, lg, x)
    /\ UNCHANGED <<cfg, numbering, last, cleanups, remote, faults>>

ParNext ==
    \/ \E t \in ParFlows : Turn(t) /\ ParStart(t)
    \/ \E t \in ParFlows : Turn(t) /\ CreateDep(t)
    \/ \E t \in ParFlows : Turn(t) /\ CreateIssue(t)
    \/ \E t \in ParFlows : Turn(t) /\ CreateAnswer(t)

ParSpec == ParInit /\ [][ParNext]_vars

TypeOK ==
    /\ cfg \in ConfigIds
    /\ DOMAIN last = DefIds(cfg)
    /\ faults \in 0..MaxFaults
    /\ ip \in 1..(Len(run(cfg)) + 1)
    /\ Len(report) = ip - 1

(***************************************************************************)
(* Reading the log                                                         *)
(***************************************************************************)
Max(S) == CHOOSE x \in S : \A y \in S : y <= x
Events == 1..Len(log)
Is(k, e, d) == log[k].ev = e /\ log[k].def = d

\* the call of create_resource_from_def that the return at position j ends
CallOf(j) == Max({i \in 1..j : Is(i, "call", log[j].def)})

\* the last update of d.last before position k, 0 if there is none
LastUpdate(d, k) ==
    LET S == {j \in 1..(k - 1) : log[j].def = d /\ log[j].ev \in {"set", "clear"}}
    IN IF S = {} THEN 0 ELSE Max(S)

\* the last clearing of d.last before position k, 0 if there is none
LastClear(d, k) ==
    LET S == {j \in 1..(k - 1) : Is(j, "clear", d)}
    IN IF S = {} THEN 0 ELSE Max(S)

\* d.last is set when the event at position k happens
SetAt(d, k) == LastUpdate(d, k) # 0 /\ log[LastUpdate(d, k)].ev = "set"

\* a create call answered with a result (success or error payload)
Answered(k) == log[k].ev = "created" /\ ~log[k].res.nil

\* an instance came into existence on the remote
Born(k) == log[k].ev = "created" /\ log[k].res.statusCode = 201

\* a delete call for the instance <<d, i>>
Targets(k, d, i) == log[k].ev \in DeleteCalls /\ log[k].def = d /\ log[k].id = i

\* two returns of create_resource_from_def for one definition, the first with
\* a result, and d.last not cleared between them
SameRun(i, j) ==
    /\ i < j
    /\ log[i].ev = "return" /\ log[j].ev = "return"
    /\ log[i].def = log[j].def
    /\ ~log[i].res.nil
    /\ \A k \in i..j : ~Is(k, "clear", log[i].def)

(***************************************************************************)
(* C1: two calls of create_resource_from_def(d) with no clearing of d.last *)
(* between them return the same instance id, and the remote create call    *)
(* for d is issued once: none after the first return, at most one during   *)
(* the first call, and exactly one answered with a result since d.last was *)
(* last empty.                                                             *)
(***************************************************************************)
C1_SameInstance ==
    \A i, j \in Events :
        SameRun(i, j) =>
            LET d == log[i].def
            IN /\ log[j].id = log[i].id
               /\ log[j].res = log[i].res
               /\ \A k \in i..j : ~Is(k, "create", d)
               /\ Cardinality({k \in CallOf(i)..i : Is(k, "create", d)}) <= 1
               /\ Cardinality({k \in (LastClear(d, i) + 1)..j : Answered(k) /\ log[k].def = d}) = 1

\* a dependency shared by two dependents was resolved twice and created once
C1_Witness ==
    \E i, j \in Events :
        /\ SameRun(i, j)
        /\ Born(i - 2) /\ log[i - 2].def = log[i].def
        /\ log[j - 1].ev = "call" /\ log[j - 1].def = log[j].def
        /\ log[j].id # Undefined

(***************************************************************************)
(* C2: every definition has at most one remote instance that was created   *)
(* and not yet successfully deleted.                                       *)
(***************************************************************************)
Live(d) == {i \in 1..Len(log) : <<d, i>> \in remote}

DeleteFailed ==
    \E k \in Events : log[k].ev = "deleted" /\ log[k].res.statusCode \in {500, Rejected}

DrainCompleted == Finished /\ log[Len(log)].ev = "drained"

C3_NoOrphanLeft ==
    DrainCompleted =>
        \A k \in Events :
            Born(k) => \E j \in Events : j > k /\ Targets(j, log[k].def, log[k].id)

(***************************************************************************)
(* C4: no delete call is issued for an instance id after an earlier delete *)
(* call for the same id returned 204.                                      *)
(***************************************************************************)
C4_NoDoubleDeletion ==
    \A k, j \in Events :
        (k < j /\ log[k].ev = "deleted" /\ log[k].res.statusCode = 204)
            => ~Targets(j, log[k].def, log[k].id)

(***************************************************************************)
(* C5: a definition's last is non-null only while the remote instance with *)
(* that id exists.                                                         *)
(***************************************************************************)
C5_LastOnlyWhileLive ==
    \A d \in DefIds(cfg) : last[d].set => <<d, last[d].id>> \in remote

\* the slot holds the id of the last result a create call of d was answered with
SlotFromCreate(d) ==
    \E k \in Events :
        /\ Answered(k) /\ log[k].def = d /\ log[k].id = last[d].id
        /\ \A j \in (k + 1)..Len(log) : ~Is(j, "clear", d) /\ ~(Answered(j) /\ log[j].def = d)

\* the clearing at position k comes right after the answer to a delete call for
\* that id in delete_dependent_resources, pushed on the queue unless it was 204
ClearedByCleanup(k) ==
    \/ /\ k > 2
       /\ log[k - 2].ev = "delete_deps" /\ log[k - 2].def = log[k].def /\ log[k - 2].id = log[k].id
       /\ log[k - 1].ev = "deleted" /\ log[k - 1].res.statusCode = 204
    \/ /\ k > 3
       /\ log[k - 3].ev = "delete_deps" /\ log[k - 3].def = log[k].def /\ log[k - 3].id = log[k].id
       /\ log[k - 2].ev = "deleted" /\ log[k - 2].res.statusCode \notin {204, Rejected}
       /\ log[k - 1].ev = "push" /\ log[k - 1].def = log[k].def /\ log[k - 1].id = log[k].id

\* the clearing at position k ends a DELETE step whose own delete returned 204
\* and whose dependency cleanup ran to its end
ClearedByStep(k) ==
    \E j \in 1..(k - 2) :
        /\ log[j].ev = "delete_step" /\ log[j].def = log[k].def
        /\ log[j + 1].ev = "deleted" /\ log[j + 1].res.statusCode = 204
        /\ \A m \in j..k : log[m].ev \notin {"throw", "call"}
        /\ \A m \in (j + 1)..k : log[m].ev # "delete_step"

\* C5 as amended: last is non-null only with the id of the result of the
\* definition's latest answered create call, and it is set to null only right
\* after a delete call for that id was answered in delete_dependent_resources
\* (with 204, or with another status and the id pushed on the orphan queue),
\* or at the end of the definition's DELETE step
C5_SlotLifecycle ==
    /\ \A d \in DefIds(cfg) : last[d].set => SlotFromCreate(d)
    /\ \A k \in Events : log[k].ev = "clear" => ClearedByCleanup(k) \/ ClearedByStep(k)
    /\ \A d \in DefIds(cfg) :
         ~last[d].set => LastUpdate(d, Len(log) + 1) = 0 \/ log[LastUpdate(d, Len(log) + 1)].ev = "clear"

\* a slot was cleared after a failed delete, and another after a DELETE step
C5_Witness ==
    /\ \E k \in Events : log[k].ev = "clear" /\ ClearedByCleanup(k) /\ log[k - 1].ev = "push"
    /\ \E k \in Events : log[k].ev = "clear" /\ ClearedByStep(k)
    /\ \E d \in DefIds(cfg) : last[d].set /\ <<d, last[d].id>> \notin remote

(***************************************************************************)
(* C6: when create_resource_from_def(A) returns, every field of the        *)
(* instance sent to A's create call whose from names a definition B holds  *)
(* B.last.id.                                                              *)
(***************************************************************************)
FromFields(c, d) ==
    {k \in 1..Len(Def(c, d).fields) :
        Def(c, d).fields[k].from # <<>> /\ Def(c, d).fields[k].from # parent_ref}

\* id in d.last when the event at position k happens
LastIdAt(d, k) == IF SetAt(d, k) THEN log[LastUpdate(d, k)].id ELSE Undefined

\* the create call issued by the call of create_resource_from_def that returns at j
CreateOf(j) == {k \in CallOf(j)..j : Is(k, "create", log[j].def)}

C6_FieldIsDependencyId ==
    \A j \in Events :
        log[j].ev = "return" =>
            \A k \in CreateOf(j) : \A n \in FromFields(cfg, log[j].def) :
                LET f == Def(cfg, log[j].def).fields[n]
                    B == find_resource_def(cfg, f.from)
                IN B # Null =>
                     /\ f.name \in DOMAIN log[k].inst
                     /\ SetAt(B, j)
                     /\ log[k].inst[f.name] = LastIdAt(B, j)

\* a definition with a dependency was created with the id of the dependency
C6_Witness ==
    \E j \in Events :
        /\ log[j].ev = "return" /\ PostPasses(log[j].res)
        /\ \E k \in CreateOf(j) : \E n \in FromFields(cfg, log[j].def) :
             LET f == Def(cfg, log[j].def).fields[n]
             IN /\ find_resource_def(cfg, f.from) # Null
                /\ log[k].inst[f.name] # Undefined
                /\ log[k].inst[f.name] = last[find_resource_def(cfg, f.from)].id

(***************************************************************************)
(* C7: with no cached instances and an acyclic dependency graph,           *)
(* create_resource_from_def(A) issues exactly one create call for every    *)
(* definition reachable from A, each dependency's create call being        *)
(* answered before the create call of a definition that references it.     *)
(* The count is taken when the call returns; the order holds at any time.  *)
(***************************************************************************)
\* the definitions the fields of d resolve to when nothing is cached
DepsOf(c, d) ==
    {find_resource_def(c, IF Def(c, d).fields[k].from = parent_ref
                          THEN Def(c, Def(c, d).parent).name
                          ELSE Def(c, d).fields[k].from) :
        k \in {n \in 1..Len(Def(c, d).fields) :
                  /\ Def(c, d).fields[n].from # <<>>
                  /\ Def(c, d).fields[n].from = parent_ref => Def(c, d).parent # Null}}
    \ {Null}

RECURSIVE Closure(_, _)
Closure(c, S) ==
    LET T == S \cup UNION {DepsOf(c, d) : d \in S}
    IN IF T = S THEN S ELSE Closure(c, T)

Reachable(c, A) == Closure(c, {A})

NothingCachedAt(c, A, i) == \A d \in Reachable(c, A) : ~SetAt(d, i)

C7_OneCreatePerDependency ==
    /\ \A j \in Events :
         (log[j].ev = "return" /\ NothingCachedAt(cfg, log[j].def, CallOf(j))) =>
             \A d \in DefIds(cfg) :
                 Cardinality({k \in CallOf(j)..j : Is(k, "create", d)})
                     = IF d \in Reachable(cfg, log[j].def) THEN 1 ELSE 0
    /\ \A i, k \in Events :
         (/\ i < k
          /\ log[i].ev = "call"
          /\ Is(k, "create", log[i].def)
          /\ NothingCachedAt(cfg, log[i].def, i)
          /\ \A n \in i..k : log[n].ev # "throw" /\ (n > i => ~Is(n, "call", log[i].def))) =>
             \A y \in DepsOf(cfg, log[i].def) :
                 \E m \in i..k : Answered(m) /\ log[m].def = y

\* as -> bs with nothing cached: two create calls, bs then as
C7_Witness ==
    /\ cfg = 1
    /\ \E j \in Events :
         /\ log[j].ev = "return" /\ log[j].def = 1 /\ CallOf(j) = 1
         /\ {k \in Events : log[k].ev = "create"} = {3, 7}
         /\ Is(3, "create", 2) /\ Is(7, "create", 1)

(***************************************************************************)
(* C8: a creation response with an error indicator leaves the definition's *)
(* last unset.                                                             *)
(***************************************************************************)
C8_ErrorNotCached == \A d \in DefIds(cfg) : last[d].set => ~last[d].obj.message

(***************************************************************************)
(* C9: when the delete of a dependency B in delete_dependent_resources     *)
(* returns a status other than 204, the orphan queue gets {B, id}, B.last  *)
(* is null, and the drain at the end of the run issues exactly one more    *)
(* delete call for that id.                                                *)
(***************************************************************************)
FailedCleanup(k) ==
    /\ k > 1
    /\ log[k - 1].ev = "delete_deps"
    /\ log[k].ev = "deleted" /\ log[k].res.statusCode \notin {204, Rejected}

DrainCalls(i) == {j \in Events : log[j].ev = "delete_drain" /\ log[j].id = i}

C9_FailedDeleteIsDrained ==
    \A k \in Events :
        FailedCleanup(k) =>
            /\ Is(k + 1, "push", log[k].def) /\ log[k + 1].id = log[k].id
            /\ Is(k + 2, "clear", log[k].def)
            /\ Finished => Cardinality(DrainCalls(log[k].id)) = 1

(***************************************************************************)
(* C10: delete_dependent_resources(def) does not delete a dependency that  *)
(* is one of def's ancestors (parent, grandparent, ...): it pushes it on   *)
(* the orphan queue instead.                                               *)
(***************************************************************************)
RECURSIVE Ancestors(_, _)
Ancestors(c, d) ==
    IF Def(c, d).parent = Null THEN {}
    ELSE {Def(c, d).parent} \cup Ancestors(c, Def(c, d).parent)

C10_AncestorIsDeferred ==
    \A t \in Flows : \A n \in 1..Len(stack[t]) :
        (stack[t][n].fn = "delete" /\ stack[t][n].pc \in {"await_rec", "issue", "await_delete"})
            => stack[t][n].temp_def \notin Ancestors(cfg, stack[t][n].def)

(***************************************************************************)
(* Reading the calls of delete_dependent_resources in the log              *)
(***************************************************************************)
Count(e, a, b) == Cardinality({m \in a..b : log[m].ev = e})

\* the last exception before position k, 0 if there is none
LastThrow(k) ==
    LET S == {j \in 1..(k - 1) : log[j].ev = "throw"}
    IN IF S = {} THEN 0 ELSE Max(S)

\* calls of delete_dependent_resources that may be the innermost one running
\* when the event at position k happens
Entered(k) ==
    {e \in (LastThrow(k) + 1)..(k - 1) :
        log[e].ev = "enter" /\ Count("enter", e + 1, k - 1) = Count("leave", e + 1, k - 1)}

\* the definition whose dependencies are being cleaned up at position k
Cleaning(k) == log[Max(Entered(k))].def

\* the call of delete_dependent_resources(d) that is running or has just
\* returned at position k
EnterOf(k, d) == Max({e \in 1..k : Is(e, "enter", d)})

\* the dependencies of d that delete_dependent_resources(d) deletes when they
\* are live
DeletedWith(c, d) ==
    {find_resource_def(c, Def(c, d).fields[n].from) :
        n \in {m \in FromFields(c, d) : delete_now(c, d, Def(c, d).fields[m])}} \ {Null}

\* a delete call of delete_dependent_resources for d at position m, answered
DeletedAt(m, d) ==
    /\ Is(m, "delete_deps", d)
    /\ m < Len(log)
    /\ log[m + 1].ev = "deleted" /\ log[m + 1].res.statusCode # Rejected

(***************************************************************************)
(* C11: when delete_dependent_resources issues the delete call for a       *)
(* dependency B, every dependency of B that was live when the cleanup of B *)
(* began and is not deferred has had its own delete call issued and        *)
(* answered; every such delete call is issued while the call of            *)
(* delete_dependent_resources that reached it is still running, and when   *)
(* that call returns none of the dependencies it deletes is left with a    *)
(* live slot.                                                              *)
(***************************************************************************)
C11_LeafFirst ==
    /\ \A k \in Events :
         log[k].ev = "delete_deps" =>
             /\ \A C \in DeletedWith(cfg, log[k].def) :
                    SetAt(C, EnterOf(k, log[k].def)) =>
                        \E m \in EnterOf(k, log[k].def)..(k - 2) : DeletedAt(m, C)
             /\ Entered(k) # {}
             /\ log[k].def \in DeletedWith(cfg, Cleaning(k))
    /\ \A k \in Events :
         (log[k].ev = "leave" /\ SetAt(log[k].def, EnterOf(k, log[k].def))) =>
             \A C \in DeletedWith(cfg, log[k].def) :
                 /\ ~SetAt(C, k)
                 /\ SetAt(C, EnterOf(k, log[k].def)) =>
                        \E m \in EnterOf(k, log[k].def)..k : DeletedAt(m, C)

\* a dependency was deleted after its own dependency, and the cleanup returned
C11_Witness ==
    \E k, l \in Events :
        /\ k < l
        /\ log[k].ev = "delete_deps" /\ log[k + 1].ev = "deleted" /\ log[k + 1].res.statusCode = 204
        /\ log[l].ev = "leave" /\ log[l].def = Cleaning(k)
        /\ \E C \in DeletedWith(cfg, log[k].def) :
             \E m \in EnterOf(k, log[k].def)..(k - 2) :
                 DeletedAt(m, C) /\ log[m + 1].res.statusCode = 204

(***************************************************************************)
(* C12: when the after hook has ended, every id that was pushed on the     *)
(* orphan queue two or more times has been the target of exactly one       *)
(* delete call of cleanup_orphans.                                         *)
(***************************************************************************)
Pushes(i) == {k \in Events : log[k].ev = "push" /\ log[k].id = i}

PushedIds == {log[k].id : k \in {j \in Events : log[j].ev = "push"}}

C12_PushedTwiceDeletedOnce ==
    Finished =>
        \A i \in PushedIds :
            Cardinality(Pushes(i)) >= 2 => Cardinality(DrainCalls(i)) = 1

(***************************************************************************)
(* C13: a field from '<parent>' of a definition whose immediate parent has *)
(* a last instance when create_resource_from_def is called gets the        *)
(* parent's last.id as its value; the field is no dependency of the call,  *)
(* and the call makes no call for the parent on behalf of that field.      *)
(***************************************************************************)
ParentFields(c, d) ==
    {k \in 1..Len(Def(c, d).fields) :
        Def(c, d).fields[k].from = parent_ref /\ Def(c, d).parent # Null}

\* the fields of the dependencies a call of create_resource_from_def resolves
DepFields(deps) == {deps[k].field : k \in 1..Len(deps)}

\* the running call of create_resource_from_def(d)
OpenCall(d) == Max({i \in Events : Is(i, "call", d)})

C13_ParentShortcut ==
    /\ \A t \in Flows : \A n \in 1..Len(stack[t]) :
         stack[t][n].fn = "create" =>
             LET d == stack[t][n].def
                 p == Def(cfg, d).parent
             IN \A k \in ParentFields(cfg, d) :
                    SetAt(p, OpenCall(d)) =>
                        /\ Def(cfg, d).fields[k].name \notin DepFields(stack[t][n].deps)
                        /\ Def(cfg, d).fields[k].name \in DOMAIN stack[t][n].instance
                        /\ stack[t][n].instance[Def(cfg, d).fields[k].name] = LastIdAt(p, OpenCall(d))
    /\ \A j \in Events :
         log[j].ev = "create" =>
             LET d == log[j].def
                 p == Def(cfg, d).parent
                 i == Max({m \in 1..j : Is(m, "call", d)})
             IN \A k \in ParentFields(cfg, d) :
                    SetAt(p, i) =>
                        /\ log[j].inst[Def(cfg, d).fields[k].name] = LastIdAt(p, i)
                        /\ p \notin {find_resource_def(cfg, Def(cfg, d).fields[n].from) :
                                        n \in FromFields(cfg, d)}
                               => \A m \in i..j : ~Is(m, "call", p)

\* a nested definition was created with the id of its parent's instance, the
\* parent being live when the call began
C13_Witness ==
    \E j \in Events :
        /\ log[j].ev = "create"
        /\ \E k \in ParentFields(cfg, log[j].def) :
             LET d == log[j].def
                 p == Def(cfg, d).parent
                 i == Max({m \in 1..j : Is(m, "call", d)})
             IN /\ SetAt(p, i)
                /\ LastIdAt(p, i) # Undefined
                /\ log[j].inst[Def(cfg, d).fields[k].name] = LastIdAt(p, i)
                /\ j = i + 1

(***************************************************************************)
(* C14: a call of create_resource_from_def(d) that finds d.last set        *)
(* returns the cached result, and until it returns no create call is       *)
(* issued for any definition and no definition's last is changed.          *)
(***************************************************************************)
C14_CachedCallIsSilent ==
    \A j \in Events :
        (log[j].ev = "return" /\ SetAt(log[j].def, CallOf(j))) =>
            /\ log[j].id = LastIdAt(log[j].def, CallOf(j))
            /\ \A k \in CallOf(j)..j : log[k].ev \notin {"create", "set", "clear"}

(***************************************************************************)
(* C15: a field from '<parent>' of a definition whose immediate parent has *)
(* no last instance when create_resource_from_def is called is resolved as *)
(* a dependency on the immediate parent definition itself, whatever its    *)
(* depth, and the instance sent to the create call carries the id of the   *)
(* parent's instance.                                                      *)
(***************************************************************************)
\* the '<parent>' fields among the dependencies of a running call
ParentDeps(c, d, deps) ==
    {k \in 1..Len(deps) :
        \E n \in ParentFields(c, d) : Def(c, d).fields[n].name = deps[k].field}

C15_ParentIsResolved ==
    /\ \A t \in Flows : \A n \in 1..Len(stack[t]) :
         stack[t][n].fn = "create" =>
             \A k \in ParentDeps(cfg, stack[t][n].def, stack[t][n].deps) :
                 find_resource_def(cfg, stack[t][n].deps[k].from) = Def(cfg, stack[t][n].def).parent
    /\ \A j \in Events :
         log[j].ev = "create" =>
             LET d == log[j].def
                 p == Def(cfg, d).parent
                 i == Max({m \in 1..j : Is(m, "call", d)})
             IN \A k \in ParentFields(cfg, d) :
                    ~SetAt(p, i) =>
                        /\ SetAt(p, j)
                        /\ log[j].inst[Def(cfg, d).fields[k].name] = LastIdAt(p, j)

(***************************************************************************)
(* C16: the client get_api_for_def(def) binds is, for a chain of any       *)
(* depth, the singular member of every intermediate owner called with that *)
(* owner's own last.id, followed by the collection member of def called    *)
(* with no arguments.                                                      *)
(***************************************************************************)
\* the scoped calls for the owners of d, from the root down, at position k
RECURSIVE OwnerCalls(_, _, _)
OwnerCalls(c, d, k) ==
    IF Def(c, d).parent = Null THEN <<>>
    ELSE Append(OwnerCalls(c, Def(c, d).parent, k),
                [member |-> singular(Def(c, Def(c, d).parent).name),
                 args |-> <<LastIdAt(Def(c, d).parent, k)>>])

ScopedApi(c, d, k) == Append(OwnerCalls(c, d, k), [member |-> Def(c, d).name, args |-> <<>>])

\* the remote calls made through a client bound by get_api_for_def
BoundCalls == {"create", "delete_deps", "delete_drain"}

C16_BinderScopesEveryOwner ==
    \A k \in Events :
        log[k].ev \in BoundCalls => log[k].api = ScopedApi(cfg, log[k].def, k)

(***************************************************************************)
(* C17: whenever create_resource_from_def, delete_dependent_resources or   *)
(* cleanup_orphans is about to call get_api_for_def on a nested            *)
(* definition, every owner in the definition's parent chain has a last.    *)
(***************************************************************************)
\* the definitions a flow is about to bind a client for
Binding(t) ==
    IF stack[t] = <<>> THEN {}
    ELSE IF Running(t, "create", "loop") /\ Top(t).i > Len(Top(t).deps) /\ ~Cached(last, Top(t).def)
    THEN {Top(t).def}
    ELSE IF Running(t, "delete", "issue")
    THEN {Top(t).temp_def}
    ELSE IF Running(t, "drain", "loop") /\ cleanups # <<>> /\ ~seen(Top(t).deleted, Head(cleanups))
    THEN {Head(cleanups).def}
    ELSE {}

C17_OwnersAreLive ==
    \A t \in Flows : \A d \in Binding(t) : \A a \in Ancestors(cfg, d) : last[a].set

(***************************************************************************)
(* C18: find_resource_def reports not-found for a path with a segment that *)
(* matches none of the candidate definitions, so that                      *)
(* create_resource_from_def raises and makes no call for a dependency with *)
(* such a path.                                                            *)
(***************************************************************************)
\* every segment names a definition among the children of the one before it
RECURSIVE AllMatch(_, _, _)
AllMatch(c, segments, defs) ==
    \/ segments = <<>>
    \/ \E i \in 1..Len(defs) :
         /\ Def(c, defs[i]).name = Head(segments)
         /\ \A j \in 1..(i - 1) : Def(c, defs[j]).name # Head(segments)
         /\ AllMatch(c, Tail(segments), Def(c, defs[i]).children)

\* a call for a dependency is in progress only if its path matched in full
C18_UnmatchedSegmentNotFound ==
    \A t \in Flows : \A n \in 1..Len(stack[t]) :
        (stack[t][n].fn = "create" /\ stack[t][n].pc = "await_dep")
            => AllMatch(cfg, Split(stack[t][n].deps[stack[t][n].i].from), all_defs(cfg))

(***************************************************************************)
(* C19: delete_dependent_resources(def) defers a live dependency to the    *)
(* orphan queue only through a field with dont_delete or when the          *)
(* dependency is an ancestor of def; a live dependency of any other field  *)
(* has had a delete call and has its last cleared when the call returns.   *)
(***************************************************************************)
\* a push on the orphan queue that does not follow a failed delete
Deferral(k) == k > 1 /\ log[k].ev = "push" /\ log[k - 1].ev # "deleted"

\* the fields of d that refer to B
FieldsTo(c, d, B) ==
    {n \in FromFields(c, d) : find_resource_def(c, Def(c, d).fields[n].from) = B}

C19_DeferredOnlyIfKeptOrAncestor ==
    /\ \A k \in Events :
         Deferral(k) =>
             \/ log[k].def \in Ancestors(cfg, Cleaning(k))
             \/ \E n \in FieldsTo(cfg, Cleaning(k), log[k].def) :
                    Def(cfg, Cleaning(k)).fields[n].dont_delete
    /\ \A k \in Events :
         (log[k].ev = "leave" /\ SetAt(log[k].def, EnterOf(k, log[k].def))) =>
             \A B \in DefIds(cfg) \ Ancestors(cfg, log[k].def) :
                 (/\ SetAt(B, EnterOf(k, log[k].def))
                  /\ FieldsTo(cfg, log[k].def, B) # {}
                  /\ \A n \in FieldsTo(cfg, log[k].def, B) : ~Def(cfg, log[k].def).fields[n].dont_delete)
                     => /\ \E m \in EnterOf(k, log[k].def)..k : Is(m, "delete_deps", B)
                        /\ ~SetAt(B, k)

(***************************************************************************)
(* C20: when delete_dependent_resources comes to a field with dont_delete  *)
(* whose referenced definition has a last instance, its step appends       *)
(* exactly one entry {referenced definition, last.id} to the orphan queue, *)
(* issues no delete call, does not call itself for the referenced          *)
(* definition, and changes no definition's last.                           *)
(***************************************************************************)
\* flow t is at a field with dont_delete that refers to a live definition
AtKeptField(t) ==
    /\ Running(t, "delete", "loop")
    /\ Top(t).x <= Len(Def(cfg, Top(t).def).fields)
    /\ LET current_field == Def(cfg, Top(t).def).fields[Top(t).x]
       IN /\ current_field.dont_delete
          /\ current_field.from # <<>> /\ current_field.from # parent_ref
          /\ find_resource_def(cfg, current_field.from) # Null
          /\ last[find_resource_def(cfg, current_field.from)].set

KeptDef(t) == find_resource_def(cfg, Def(cfg, Top(t).def).fields[Top(t).x].from)

C20_KeptDependencyIsQueued ==
    [][\A t \in Flows :
         (AtKeptField(t) /\ stack'[t] # stack[t]) =>
             /\ cleanups' = Append(cleanups, [def |-> KeptDef(t), id |-> last[KeptDef(t)].id])
             /\ last' = last
             /\ remote' = remote
             /\ log' = Append(log, EvPush(KeptDef(t), last[KeptDef(t)].id))
             /\ stack'[t] = SetTop(stack[t], [Top(t) EXCEPT !.x = Top(t).x + 1])]_vars

\* a kept dependency has just been queued: it is live and its slot is set
C20_Witness ==
    /\ Deferral(Len(log))
    /\ \E n \in FieldsTo(cfg, Cleaning(Len(log)), log[Len(log)].def) :
         Def(cfg, Cleaning(Len(log))).fields[n].dont_delete
    /\ cleanups # <<>>
    /\ cleanups[Len(cleanups)] = [def |-> log[Len(log)].def, id |-> log[Len(log)].id]
    /\ last[log[Len(log)].def].set
    /\ last[log[Len(log)].def].id = log[Len(log)].id
    /\ <<log[Len(log)].def, log[Len(log)].id>> \in remote

(***************************************************************************)
(* C21: cleanup_orphans is a best-effort sweep: whatever happens to one    *)
(* queue entry, the drain goes on to the end of the queue, so that when    *)
(* the after hook has ended the queue is empty, the drain has completed,   *)
(* and no id has been the target of more than one of its delete calls.     *)
(***************************************************************************)
C21_DrainIsBestEffort ==
    Finished =>
        /\ cleanups = <<>>
        /\ log[Len(log)].ev = "drained"
        /\ \A i \in PushedIds : Cardinality(DrainCalls(i)) <= 1

(***************************************************************************)
(* C22: with interleaved calls of create_resource_from_def, two instances  *)
(* of one definition come into existence only when the create call of the  *)
(* second was issued before the result of the first was recorded: two      *)
(* create calls for the definition were then waiting for their answers at  *)
(* the same time.  Calls that follow one another never create a second     *)
(* instance.                                                               *)
(***************************************************************************)
\* create calls for d that are waiting for their answer at position k
Outstanding(d, k) ==
    Cardinality({m \in 1..(k - 1) : Is(m, "create", d)})
        - Cardinality({m \in 1..(k - 1) : log[m].def = d /\ log[m].ev \in {"created", "rejected"}})

C22_DuplicateOnlyByRace ==
    \A k1, k2 \in Events :
        (k1 < k2 /\ Born(k1) /\ Born(k2) /\ log[k1].def = log[k2].def) =>
            Outstanding(log[k1].def, k1) >= 2

\* two instances of one definition exist, created by interleaved calls
C22_Witness ==
    \E d \in DefIds(cfg) :
        /\ Cardinality(Live(d)) = 2
        /\ Cardinality({k \in Events : Born(k) /\ log[k].def = d}) = 2
        /\ last[d].set
        /\ \A t \in ParFlows : stack[t] = <<>>

(***************************************************************************)
(* C23: over an acyclic dependency graph every step ends.  A definition    *)
(* from which a cycle of "from" references is reached never has its own    *)
(* create call issued and its call never returns a result.  When the       *)
(* definitions of the cycle reach one another as their first dependency,   *)
(* the nested calls exhaust the call stack and the step ends with that     *)
(* error; once the calls have gone round the cycle across an await, the    *)
(* call never ends.                                                        *)
(***************************************************************************)
\* definitions that create_resource_from_def(d) calls itself for
CallsOf(c, d) ==
    {find_resource_def(c, Def(c, d).fields[n].from) : n \in FromFields(c, d)} \ {Null}

RECURSIVE CallClosure(_, _)
CallClosure(c, S) ==
    LET T == S \cup UNION {CallsOf(c, d) : d \in S}
    IN IF T = S THEN S ELSE CallClosure(c, T)

OnCycle(c, d) == d \in CallClosure(c, CallsOf(c, d))

ReachesCycle(c, d) == \E e \in CallClosure(c, {d}) : OnCycle(c, e)

Acyclic(c) == \A d \in DefIds(c) : ~OnCycle(c, d)

\* definition that the call for d calls before any await
FirstCall(c, d) ==
    IF FromFields(c, d) = {} THEN Null
    ELSE LET n == CHOOSE m \in FromFields(c, d) : \A o \in FromFields(c, d) : m <= o
         IN find_resource_def(c, Def(c, d).fields[n].from)

RECURSIVE Follow(_, _, _)
Follow(c, d, n) ==
    IF n = 0 \/ d = Null THEN d ELSE Follow(c, FirstCall(c, d), n - 1)

\* every definition on a cycle comes back to itself through first dependencies
SyncCyclic(c) ==
    /\ ~Acyclic(c)
    /\ \A d \in DefIds(c) :
         OnCycle(c, d) => \E n \in 1..NumDefs(c) : Follow(c, d, n) = d

\* the running calls went round a cycle and resumed after an await on the way
Round ==
    \E i, j \in 1..Len(stack[Runner]) :
        /\ i < j
        /\ stack[Runner][i].fn = "create" /\ stack[Runner][j].fn = "create"
        /\ stack[Runner][i].def = stack[Runner][j].def
        /\ \E m \in i..(j - 1) : stack[Runner][m].i > 1

NoCreateOnCycle ==
    \A k \in Events :
        (log[k].def # Null /\ ReachesCycle(cfg, log[k].def)) =>
            /\ log[k].ev \notin {"create", "created", "return", "set"}
            /\ ~last[log[k].def].set

C23_EndsUnlessRoundACycle ==
    /\ []NoCreateOnCycle
    /\ (Acyclic(cfg) \/ SyncCyclic(cfg)) => <>Finished
    /\ [](Round => [](stack[Runner] # <<>>))

\* a call for a definition that reaches a cycle is running
CycleCall ==
    \E i \in 1..Len(stack[Runner]) :
        stack[Runner][i].fn = "create" /\ ReachesCycle(cfg, stack[Runner][i].def)

\* C23 as stated: over an acyclic graph every step ends, and a call for a
\* definition that reaches a cycle never ends
C23_CycleNeverEnds ==
    /\ Acyclic(cfg) => <>Finished
    /\ [](CycleCall => [](stack[Runner] # <<>>))

\* the nested calls of a cycle exhausted the call stack and the run went on
C23_Witness ==
    /\ SyncCyclic(cfg)
    /\ Finished
    /\ \E k \in Events :
         /\ log[k].ev = "throw"
         /\ Cardinality({m \in 1..k : log[m].ev = "call"}) > MaxSync
         /\ \A m \in 1..k : log[m].ev \in {"call", "throw"}

(***************************************************************************)
(* C24: when the create call of a dependency is rejected or answered with  *)
(* no result, the step ends there with a failure: the definitions whose    *)
(* calls were waiting for the dependency have not issued their own create  *)
(* call, every dependency they resolved before keeps its last, no delete   *)
(* call is issued and the orphan queue is left as it was.                  *)
(***************************************************************************)
\* the create call of a dependency is waiting for its answer
AwaitsDependency ==
    /\ Len(stack[Runner]) >= 3
    /\ Top(Runner).fn = "create" /\ Top(Runner).pc = "await_create"

\* the answer that this step logs is a rejection or no result
FailedAnswer ==
    /\ Len(log') > Len(log)
    /\ \/ log'[Len(log) + 1].ev = "rejected"
       \/ log'[Len(log) + 1].ev = "created" /\ log'[Len(log) + 1].res.nil

\* dependencies that the frame at position j of the stack resolved already
ResolvedBy(j) ==
    {find_resource_def(cfg, stack[Runner][j].deps[m].from) : m \in 1..(stack[Runner][j].i - 1)}

C24_DependencyFailureAborts ==
    [][(AwaitsDependency /\ FailedAnswer) =>
          /\ stack'[Runner] = <<>>
          /\ report' = Append(report, "fail")
          /\ log'[Len(log')].ev = "throw"
          /\ \A m \in (Len(log) + 1)..Len(log') :
                log'[m].ev \in {"rejected", "created", "return", "throw"}
          /\ \A j \in 2..(Len(stack[Runner]) - 1) :
                /\ stack[Runner][j].pc = "await_dep"
                /\ \A e \in ResolvedBy(j) : last'[e].set
          /\ last' = last
          /\ cleanups' = cleanups]_vars

\* the second dependency of a definition failed after the first was created
C24_Witness ==
    /\ Len(log) > 3
    /\ log[Len(log)].ev = "throw"
    /\ \E f \in {Len(log) - 2, Len(log) - 1} : \E x, e \in DefIds(cfg) :
         /\ log[f].ev = "rejected" \/ (log[f].ev = "created" /\ log[f].res.nil)
         /\ log[f].def # e
         /\ {e, log[f].def} \subseteq CallsOf(cfg, x)
         /\ \E s \in 1..f : Is(s, "set", e)
         /\ last[e].set
         /\ Live(e) # {}
         /\ ~\E m \in Events : log[m].def = x /\ log[m].ev = "create"
         /\ log[1].def = x
    /\ cleanups = <<>>
    /\ \A m \in Events : log[m].ev \notin DeleteCalls

(***************************************************************************)
(* C25: cleanup_orphans is called at most once in a run and once in a      *)
(* finished run.  When it is called every step of every definition has     *)
(* reported: each DELETE step has issued its primary delete, and has       *)
(* entered the dependency cleanup when that delete returned 204.  After    *)
(* the call nothing is pushed on the orphan queue: the only events are     *)
(* the delete calls of the drain, their answers and its end.               *)
(***************************************************************************)
Drains == {k \in Events : log[k].ev = "drain"}

C25_DrainedOnceAtTheEnd ==
    /\ Cardinality(Drains) <= 1
    /\ Finished => Cardinality(Drains) = 1
    /\ \A k \in Drains :
         /\ Len(report) >= Len(run(cfg)) - 1
         /\ \A s \in 1..Len(run(cfg)) :
              run(cfg)[s].step = "DELETE" =>
                 \E m \in 1..(k - 1) : Is(m, "delete_step", run(cfg)[s].def)
         /\ \A m \in 1..(k - 1) :
              log[m].ev = "delete_step" =>
                 /\ log[m + 1].ev = "deleted"
                 /\ log[m + 1].res.statusCode = 204 => Is(m + 2, "enter", log[m].def)
         /\ \A m \in (k + 1)..Len(log) :
              log[m].ev \in {"delete_drain", "deleted", "drained", "throw"}

\* a finished run whose queue held an entry when the drain started
C25_Witness ==
    /\ Finished
    /\ \E k \in Drains :
         /\ \E m \in 1..(k - 1) : log[m].ev = "push"
         /\ \E m \in (k + 1)..Len(log) : log[m].ev = "delete_drain"
         /\ \E m \in 1..(k - 1) : log[m].ev = "leave"

(***************************************************************************)
(* C26: within the call tree of one delete_dependent_resources(x) made by  *)
(* a DELETE step, a definition receives at most one delete call, and each  *)
(* delete call and each queue entry is for a definition whose last is set. *)
(* When no delete of the tree fails and the tree completes, every          *)
(* definition that was live at its start and is reached from x through     *)
(* live definitions along fields that are deleted at once has received     *)
(* exactly one delete call, however many paths lead to it.                 *)
(***************************************************************************)
\* the calls of delete_dependent_resources made by the DELETE steps
TreeRoots ==
    {e \in Events : /\ e > 2
                    /\ log[e].ev = "enter"
                    /\ log[e - 1].ev = "deleted"
                    /\ log[e - 2].ev = "delete_step"}

\* the events of the call tree that starts at e
Tree(e) ==
    LET S == {m \in (e + 1)..Len(log) : log[m].ev \in {"delete_step", "drain", "call"}}
    IN e..(IF S = {} THEN Len(log) ELSE Min(S) - 1)

\* the call tree that starts at e has returned to the step
Completed(e) ==
    \E m \in Tree(e) : Is(m, "leave", log[e].def) /\ m + 1 \in Tree(e) /\ Is(m + 1, "clear", log[e].def)

NoDeleteFails(e) ==
    \A m \in Tree(e) : log[m].ev = "deleted" => log[m].res.statusCode \notin {500, Rejected}

\* definitions reached from those of S through definitions live at position e
RECURSIVE LiveWalk(_, _)
LiveWalk(S, e) ==
    LET T == S \cup {d \in UNION {DeletedWith(cfg, x) : x \in S} : SetAt(d, e)}
    IN IF T = S THEN S ELSE LiveWalk(T, e)

DeletesOf(d, e) == {m \in Tree(e) : Is(m, "delete_deps", d)}

\* DiamondConfig: ds is reached from as through bs and through cs
SeveralPaths(c, x, d) ==
    Cardinality({y \in DeletedWith(c, x) : d \in DeletedWith(c, y)}) > 1

C26_OneDeletePerDependency ==
    \A e \in TreeRoots :
        /\ \A d \in DefIds(cfg) : Cardinality(DeletesOf(d, e)) <= 1
        /\ \A m \in Tree(e) : log[m].ev \in {"delete_deps", "push"} => SetAt(log[m].def, m)
        /\ (NoDeleteFails(e) /\ Completed(e)) =>
              \A d \in LiveWalk({log[e].def}, e) \ {log[e].def} :
                  Cardinality(DeletesOf(d, e)) = 1

\* a completed call tree in which a live definition was reached by two paths
C26_Witness ==
    \E e \in TreeRoots : \E d \in DefIds(cfg) :
        /\ NoDeleteFails(e) /\ Completed(e)
        /\ SeveralPaths(cfg, log[e].def, d)
        /\ \A y \in DeletedWith(cfg, log[e].def) : SetAt(y, e)
        /\ SetAt(d, e)
        /\ Cardinality(DeletesOf(d, e)) = 1

(***************************************************************************)
(* C27: the object that make_test_object(def) hands to a call of           *)
(* create_resource_from_def names, in the order of the fields, one         *)
(* dependency {field, from} for every field with a from that is not        *)
(* '<parent>', whether or not the referenced definition has its last set;  *)
(* making the object changes no last and not the orphan queue.             *)
(***************************************************************************)
\* the fields of d with a from that is not '<parent>', as dependencies
PathDeps(c, d) ==
    LET F == SelectSeq(Def(c, d).fields, LAMBDA f : f.from # <<>> /\ f.from # parent_ref)
    IN [n \in 1..Len(F) |-> [field |-> F[n].name, from |-> F[n].from]]

\* the recorded dependencies that do not come from a '<parent>' field
RecordedPathDeps(c, d, deps) ==
    SelectSeq(deps, LAMBDA x :
        \E n \in 1..Len(Def(c, d).fields) :
            Def(c, d).fields[n].name = x.field /\ Def(c, d).fields[n].from # parent_ref)

\* this step calls create_resource_from_def, which makes the object first
CallMade ==
    /\ stack'[Runner] # <<>>
    /\ Len(stack'[Runner]) > Len(stack[Runner])
    /\ stack'[Runner][Len(stack'[Runner])].fn = "create"

C27_DepsForEveryPathField ==
    [][CallMade =>
          LET f == stack'[Runner][Len(stack'[Runner])]
          IN /\ RecordedPathDeps(cfg, f.def, f.deps) = PathDeps(cfg, f.def)
             /\ \A n \in 1..Len(PathDeps(cfg, f.def)) :
                   PathDeps(cfg, f.def)[n].field \notin DOMAIN f.instance
             /\ last' = last
             /\ cleanups' = cleanups]_vars

\* a call was made for a definition that refers to a definition with an instance
C27_Witness ==
    /\ Running(Runner, "create", "loop")
    /\ Top(Runner).i = 1
    /\ PathDeps(cfg, Top(Runner).def) # <<>>
    /\ Top(Runner).deps = PathDeps(cfg, Top(Runner).def)
    /\ \E n \in 1..Len(Top(Runner).deps) :
         LET B == find_resource_def(cfg, Top(Runner).deps[n].from)
         IN B # Null /\ last[B].set /\ Live(B) # {}

(***************************************************************************)
(* C28: when every segment of a path matches (the first a root definition, *)
(* each next one a child of the match before), the definition that         *)
(* find_resource_def hands to create_resource_from_def and to              *)
(* delete_dependent_resources is the one whose names, from its root down   *)
(* to itself, are the segments of the path.                                *)
(***************************************************************************)
\* d is the definition at the end of the chain that the path spells
EndOfChain(c, d, path) == d # Null /\ chain_of(c, d) = Split(path)

C28_FullMatchFindsEndOfChain ==
    \A n \in 1..Len(stack[Runner]) :
        LET f == stack[Runner][n]
        IN /\ (f.fn = "create" /\ f.pc = "await_dep"
                  /\ AllMatch(cfg, Split(f.deps[f.i].from), all_defs(cfg))) =>
                 /\ n < Len(stack[Runner])
                 /\ EndOfChain(cfg, stack[Runner][n + 1].def, f.deps[f.i].from)
           /\ (f.fn = "delete" /\ f.pc \in {"await_rec", "issue", "await_delete"}
                  /\ AllMatch(cfg, Split(Def(cfg, f.def).fields[f.x].from), all_defs(cfg))) =>
                 EndOfChain(cfg, f.temp_def, Def(cfg, f.def).fields[f.x].from)

\* a call is in progress for the definition found at the end of a path of
\* two segments
C28_Witness ==
    \E n \in 1..(Len(stack[Runner]) - 1) :
        LET f == stack[Runner][n]
        IN /\ f.fn = "create" /\ f.pc = "await_dep"
           /\ Len(Split(f.deps[f.i].from)) = 2
           /\ AllMatch(cfg, Split(f.deps[f.i].from), all_defs(cfg))
           /\ Def(cfg, stack[Runner][n + 1].def).parent # Null
           /\ EndOfChain(cfg, stack[Runner][n + 1].def, f.deps[f.i].from)

(***************************************************************************)
(* C29: during the DELETE step of a definition x, x.last changes only by   *)
(* being set to null at the end of a step whose primary delete returned    *)
(* 204 and whose dependency cleanup returned without an exception, and     *)
(* that step passes.  A primary delete with another status fails the       *)
(* step.  A step that fails, at the primary delete or in the cleanup,      *)
(* leaves every last and the orphan queue as they are at the failure and   *)
(* issues no further delete call.                                          *)
(***************************************************************************)
InDeleteStep == stack[Runner] # <<>> /\ stack[Runner][1].fn = "DELETE"

\* the primary delete call of the running DELETE step
Primary == Max({m \in Events : log[m].ev = "delete_step"})

StepFails == report' = Append(report, "fail")

C29_ClearedOnlyAfterCleanup ==
    [][InDeleteStep =>
          LET x == stack[Runner][1].def
              n == Len(log')
          IN /\ last'[x] # last[x] =>
                  /\ ~last'[x].set
                  /\ report' = Append(report, "pass")
                  /\ log[Primary].def = x
                  /\ log[Primary + 1].ev = "deleted"
                  /\ log[Primary + 1].res.statusCode = 204
                  /\ \A m \in Primary..Len(log) : log[m].ev # "throw"
                  /\ log'[n - 1].ev = "leave" /\ log'[n - 1].def = x
                  /\ log'[n].ev = "clear" /\ log'[n].def = x
             /\ report' = Append(report, "pass") => ~last'[x].set
             /\ (stack[Runner][1].pc = "await_primary"
                    /\ log'[Len(log) + 1].res.statusCode # 204) => StepFails
             /\ StepFails =>
                  /\ last' = last
                  /\ cleanups' = cleanups
                  /\ stack'[Runner] = <<>>
                  /\ \A m \in (Len(log) + 1)..n : log'[m].ev \in {"deleted", "throw"}
                  /\ \A m \in (Len(log) + 1)..n :
                        log'[m].ev = "deleted" => log'[m].res.statusCode # 204]_vars

\* the cleanup of a DELETE step failed: x.last is still set and a dependency
\* of x still has its instance, is not deleted and not queued
C29_Witness ==
    /\ stack[Runner] = <<>>
    /\ \E m \in Events : log[m].ev = "delete_step"
    /\ log[Len(log)].ev = "throw"
    /\ report[Len(report)] = "fail"
    /\ \E x, d \in DefIds(cfg) :
         /\ log[Primary].def = x
         /\ log[Primary + 1].res.statusCode = 204
         /\ Is(Primary + 2, "enter", x)
         /\ last[x].set
         /\ d \in DeletedWith(cfg, x)
         /\ last[d].set /\ Live(d) # {}
         /\ \A m \in Primary..Len(log) : log[m].def = d => log[m].ev \notin {"delete_deps", "push"}
         /\ \A k \in 1..Len(cleanups) : cleanups[k].def # d

(***************************************************************************)
(* C30: the drain issues at most one delete call per id, and issues it for *)
(* the definition of the first queue entry that carries the id; a later    *)
(* entry with the same id gets no delete call, also when it belongs to     *)
(* another definition.  A drain that runs to its end has issued exactly    *)
(* one delete call for every id in the queue.                              *)
(***************************************************************************)
\* the definition of the first queue entry with id i
FirstPushed(i) == log[Min(Pushes(i))].def

C30_DrainDedupsOnIdAlone ==
    /\ \A k \in Events :
         log[k].ev = "delete_drain" =>
            /\ Pushes(log[k].id) # {}
            /\ log[k].def = FirstPushed(log[k].id)
            /\ DrainCalls(log[k].id) = {k}
    /\ (Finished /\ log[Len(log)].ev = "drained") =>
          \A i \in PushedIds : Cardinality(DrainCalls(i)) = 1

\* the drain ran to its end over two entries of different definitions with
\* one id: the second was skipped and its instance is left on the remote
C30_Witness ==
    /\ Finished
    /\ log[Len(log)].ev = "drained"
    /\ \E p, q \in Events :
         /\ p < q
         /\ log[p].ev = "push" /\ log[q].ev = "push"
         /\ log[p].id = log[q].id
         /\ log[p].def # log[q].def
         /\ p = Min(Pushes(log[p].id))
         /\ \E k \in DrainCalls(log[p].id) : log[k].def = log[p].def
         /\ \A k \in Events : log[k].ev = "delete_drain" => log[k].def # log[q].def
         /\ <<log[q].def, log[q].id>> \in remote

(***************************************************************************)
(* C31: a call of delete_dependent_resources(def) made while def.last is   *)
(* null returns at once: it issues no delete call, pushes nothing on the   *)
(* orphan queue and changes no last, whatever instances the definitions    *)
(* that def refers to have.                                                *)
(***************************************************************************)
\* delete_dependent_resources(def) has just been called and def.last is null
EnteredWithoutLast ==
    /\ Running(Runner, "delete", "entry")
    /\ ~last[Top(Runner).def].set

C31_NoLastNoCleanup ==
    [][EnteredWithoutLast =>
          /\ Len(stack'[Runner]) < Len(stack[Runner])
          /\ last' = last
          /\ cleanups' = cleanups
          /\ remote' = remote
          /\ Len(log') > Len(log)
          /\ log'[Len(log) + 1].ev = "leave"
          /\ log'[Len(log) + 1].def = Top(Runner).def
          /\ \A m \in (Len(log) + 1)..Len(log') :
                log'[m].ev \notin (DeleteCalls \cup {"push", "enter", "deleted"})]_vars

\* definitions that def refers to
RefersTo(c, d) ==
    {find_resource_def(c, Def(c, d).fields[n].from) : n \in FromFields(c, d)} \ {Null}

\* a call for a definition without last has returned while a definition it
\* refers to has its last set and its instance on the remote
C31_Witness ==
    \E k \in Events :
        /\ k + 1 \in Events
        /\ log[k].ev = "enter"
        /\ Is(k + 1, "leave", log[k].def)
        /\ ~SetAt(log[k].def, k)
        /\ \E d \in RefersTo(cfg, log[k].def) :
              /\ SetAt(d, k)
              /\ last[d].set
              /\ <<d, last[d].id>> \in remote

(***************************************************************************)
(* C32: no step of cleanup_orphans changes a last.  When the drain has     *)
(* deleted an instance that was deferred to the queue (dont_delete or      *)
(* ancestor case) and the last of its definition was neither cleared nor   *)
(* assigned between the deferral and the drain, that last is still set to  *)
(* the id of the deleted instance.                                         *)
(***************************************************************************)
InDrain == stack[Runner] # <<>> /\ stack[Runner][1].fn = "AFTER"

\* the drain's delete call at position k was answered with 204
DrainDeleted(k) ==
    /\ log[k].ev = "delete_drain"
    /\ k + 1 \in Events
    /\ log[k + 1].ev = "deleted" /\ log[k + 1].res.statusCode = 204

\* the entries of the instance that the call at k deletes and that were
\* queued by deferral
DeferralsOf(k) ==
    {p \in 1..k : Deferral(p) /\ log[p].def = log[k].def /\ log[p].id = log[k].id}

\* the last of d was neither cleared nor assigned between positions p and k
Untouched(d, p, k) ==
    \A m \in p..k : ~(log[m].def = d /\ log[m].ev \in {"set", "clear"})

\* the last of every drained deferred instance that was left alone is stale
StaleAfterDrain ==
    \A k \in Events :
        DrainDeleted(k) =>
            \A p \in DeferralsOf(k) :
                Untouched(log[k].def, p, k) =>
                    /\ last[log[k].def].set
                    /\ last[log[k].def].id = log[k].id

C32_DrainLeavesLast ==
    [][InDrain => (last' = last /\ StaleAfterDrain')]_vars

\* C32 as stated: after the drain has deleted a deferred instance, the last
\* of its definition is still set to the drained id
C32_DeferredKeepsLast ==
    \A k \in Events :
        (DrainDeleted(k) /\ DeferralsOf(k) # {}) =>
            /\ last[log[k].def].set
            /\ last[log[k].def].id = log[k].id

\* the drain has deleted a deferred instance and the last of its definition
\* still holds the id of the instance that is gone
C32_Witness ==
    /\ Finished
    /\ \E k \in Events :
         /\ DrainDeleted(k)
         /\ \E p \in DeferralsOf(k) : Untouched(log[k].def, p, k)
         /\ last[log[k].def].set
         /\ last[log[k].def].id = log[k].id
         /\ <<log[k].def, log[k].id>> \notin remote

=============================================================================
